---- MODULE Spec2Model ----
(***************************************************************************)
(* Model of ModulationSpectroscopy.py: the Slider control (a QSlider and a *)
(* QSpinBox that both write Slider.x), the Widget with its six Sliders,    *)
(* the scheme combo box and the five plot curves, and Widget.update, the   *)
(* simulation pass that recomputes every curve.                            *)
(*                                                                         *)
(* Numbers.  Python floats are modelled in fixed point.                    *)
(*   - parameters and frequencies (Slider.x, the detuning grid) are        *)
(*     integers in units of 1/U, U = 9900: every Slider.x the GUI can      *)
(*     produce, minimum + value/99 * (maximum - minimum) with minimum and  *)
(*     maximum multiples of 0.01, is exact in this unit;                   *)
(*   - dimensionless results (transmission, error signals, field,          *)
(*     spectrum) are integers in units of 1/One, One = 10000;              *)
(*   - products and quotients truncate toward zero, so that, like IEEE     *)
(*     arithmetic, they are symmetric under a change of sign;              *)
(*   - NaN is the one non-finite value that can leave an expression of the *)
(*     program (0/0 when gamma = 0); it propagates through arithmetic.     *)
(***************************************************************************)
EXTENDS Integers, Sequences, FiniteSets, TLC

\* ------------------------------------------------------------ fixed point

\* Resolution of a parameter literal: 0.01 is Cent^-1.
Cent == 100

\* QSlider and QSpinBox are constructed with Qt's default range 0..99, so
\* slider.maximum() - slider.minimum() is 99.
SliderMinimum == 0
SliderMaximum == 99

\* Unit of parameters and frequencies: 1/U.
U == (SliderMaximum - SliderMinimum) * Cent

\* 1.0 in result units.
One == 10000

\* np.pi in result units (radians).
Pi == 31416

\* exp(-1) in result units.
ExpM1 == 3679

\* IEEE NaN: outside the range of every finite value of the model.
NaN == -(2 ^ 30)

Abs(a) == IF a < 0 THEN -a ELSE a

Sign(a) == IF a < 0 THEN -1 ELSE 1

\* floor(a*b/c) for a, b >= 0 and 0 < c < 46341, without forming a*b.
MulDiv(a, b, c) ==
    (a \div c) * b + (a % c) * (b \div c) + ((a % c) * (b % c)) \div c

\* a*b/c truncated toward zero (sign-symmetric, like float * and /).
SMulDiv(a, b, c) ==
    IF a = NaN \/ b = NaN THEN NaN
    ELSE Sign(a) * Sign(b) * MulDiv(Abs(a), Abs(b), c)

FAdd(a, b) == IF a = NaN \/ b = NaN THEN NaN ELSE a + b

FSub(a, b) == IF a = NaN \/ b = NaN THEN NaN ELSE a - b

\* (a*b) mod m for a, b >= 0, 0 < m < 2^30, by doubling.
RECURSIVE MulMod(_, _, _)
MulMod(a, b, m) ==
    IF b = 0 THEN 0
    ELSE (2 * MulMod(a, b \div 2, m) + (b % 2) * (a % m)) % m

\* floor(sqrt(n)) for 0 <= n, searched in lo..hi.
RECURSIVE IsqrtIn(_, _, _)
IsqrtIn(n, lo, hi) ==
    IF lo = hi THEN lo
    ELSE IF ((lo + hi + 1) \div 2) * ((lo + hi + 1) \div 2) <= n
         THEN IsqrtIn(n, (lo + hi + 1) \div 2, hi)
         ELSE IsqrtIn(n, lo, (lo + hi + 1) \div 2 - 1)

Isqrt(n) == IsqrtIn(n, 0, 46340)

\* np.exp(-q), q >= 0 in units 1/One: exp(-frac) by its Taylor series, times
\* exp(-1) once per unit of the integer part; 0 once the result is below the
\* resolution.
RECURSIVE ExpInt(_, _)
ExpInt(v, k) ==
    IF k = 0 \/ v = 0 THEN v ELSE ExpInt((v * ExpM1) \div One, k - 1)

\* sum of the series' terms from the n-th on, term being the n-th: the next
\* term is term * f / (n + 1).
RECURSIVE ExpTail(_, _, _)
ExpTail(f, term, n) ==
    IF term = 0 \/ n > 7 THEN 0
    ELSE term - ExpTail(f, (term * f) \div ((n + 1) * One), n + 1)

ExpFrac(f) == One - ExpTail(f, f, 1)

ExpNeg(q) == ExpInt(ExpFrac(q % One), q \div One)

\* num/gamma to three decimals (units 1/1000) for num >= 0, gamma > 0, by long
\* division: the integer part, two more digits, then the third.
Ratio(num, gamma) ==
    (num \div gamma) * 1000
        + (((num % gamma) * Cent) \div gamma) * 10
        + ((((num % gamma) * Cent) % gamma) * 10) \div gamma

\* r*r/2 in units 1/One for r in units 1/1000.
HalfSquare(r) == (r * r) \div 200

\* np.exp(-(num**2) / (2 * gamma**2)) for num >= 0, gamma > 0 (units 1/U).
\* For num/gamma >= 10 (an exponent of 50 and more) the result is below the
\* resolution.
Gauss(num, gamma) ==
    IF num \div gamma >= 10 THEN 0 ELSE ExpNeg(HalfSquare(Ratio(num, gamma)))

\* np.cos(x) for 0 <= x <= pi/2 (x in result units): Taylor series.
\* term is the series' term of degree n: the next is term * x^2 / ((n+1)(n+2)).
RECURSIVE CosTail(_, _, _)
CosTail(x2, term, n) ==
    IF term = 0 \/ n > 10 THEN 0
    ELSE term - CosTail(x2, (term * x2) \div ((n + 1) * (n + 2) * One), n + 2)

CosQ(x) == One - CosTail((x * x) \div One, (x * x) \div (2 * One), 2)

\* np.cos(x), x in radians (result units), any sign.
CosHalfTurn(z) == IF 2 * z > Pi THEN -CosQ(Pi - z) ELSE CosQ(z)

CosTurn(y) == CosHalfTurn(IF y > Pi THEN 2 * Pi - y ELSE y)

CosRad(x) == CosTurn(Abs(x) % (2 * Pi))

\* np.cos of an angle of c hundredths of a degree, 0 <= c < 36000.
CosHalfTurnDeg(z) ==
    IF z > 9000 THEN -CosQ(((18000 - z) * Pi) \div 18000)
    ELSE CosQ((z * Pi) \div 18000)

CosDeg(c) == CosHalfTurnDeg(IF c > 18000 THEN 36000 - c ELSE c)

\* np.sin of the same angle: sin(a) = cos(a + 270 degrees).
SinDeg(c) == CosDeg((c + 27000) % 36000)

\* ---------------------------------------------------------------- bounds

\* Points of each np.linspace grid (1000 in the program).
Num == 3

\* User events (value changes and scheme selections) followed from start-up.
MaxEvents == 3

\* --------------------------------------------------------- numpy helpers

\* Resolution of a time sample: 0.1.
Deci == 10

\* np.linspace(start, stop, num)[k], k = 0..num-1: start + k*step with
\* step = (stop - start)/(num - 1), and the last sample set to stop.
LinspaceAt(start, stop, num, k) ==
    IF k = num - 1 THEN stop ELSE start + k * ((stop - start) \div (num - 1))

Linspace(start, stop, num) ==
    [k \in 1..num |-> LinspaceAt(start, stop, num, k - 1)]

\* np.cos(f*t*np.pi/180) and np.sin(f*t*np.pi/180): f in units 1/U, t in
\* units 1/Deci, so f*t is an angle in degrees in units 1/(U*Deci); it is
\* reduced modulo 360 degrees and rounded down to a hundredth of a degree.
AngleOf(f, t) == MulMod(Abs(f), Abs(t), 360 * U * Deci) \div ((U * Deci) \div 100)

CosOfProduct(f, t) == CosDeg(AngleOf(f, t))

SinOfProduct(f, t) == Sign(f) * Sign(t) * SinDeg(AngleOf(f, t))

\* abs(z) of the complex number re + i*im (result units).
Hypot(re, im) == 8 * Isqrt((re \div 8) * (re \div 8) + (im \div 8) * (im \div 8))

RECURSIVE SumTo(_, _)
SumTo(f, n) == IF n = 0 THEN 0 ELSE f[n] + SumTo(f, n - 1)

\* abs(scipy.fftpack.fft(e)): entry k is |sum_j e[j] * exp(-2*pi*i*j*k/N)|.
\* The angle 2*pi*j*k/N in hundredths of a degree.
Twiddle(j, k, N) == (36000 * ((j * k) % N)) \div N

FftRe(e, k) ==
    SumTo([j \in 1..Len(e) |->
              SMulDiv(e[j], CosDeg(Twiddle(j - 1, k, Len(e))), One)], Len(e))

FftIm(e, k) ==
    SumTo([j \in 1..Len(e) |->
              -SMulDiv(e[j], SinDeg(Twiddle(j - 1, k, Len(e))), One)], Len(e))

AbsFft(e) == [k \in 1..Len(e) |-> Hypot(Abs(FftRe(e, k - 1)), Abs(FftIm(e, k - 1)))]

\* --------------------------------------------------------- Widget.update

FM == "Frequency Modulation"
TT == "Two Tone Frequency Modulation"
FMTT == "FM and TTFMS"

\* The items of the combo box c1, in the order they are added.
Schemes == <<FM, TT, FMTT>>

\* The local variables of update that its lambdas capture, read from the six
\* Sliders.  A lambda reads a captured variable when it is called, so it sees
\* the value the variable has then.
Locals(xs) ==
    [gamma |-> xs[1], fmfmod |-> xs[2], fmod1 |-> xs[2], fmod2 |-> xs[3],
     flaser |-> xs[4], M1 |-> xs[5], M2 |-> xs[6]]

\* absorption with a dip of full depth: 1-np.exp(...).
absorptionFullDepth(env, val) ==
    IF env.gamma = 0
    THEN IF env.flaser + val = 0 THEN NaN ELSE One
    ELSE One - Gauss(Abs(env.flaser + val), Abs(env.gamma))

\* absorption with the dip centred at val = flaser: (flaser-val)**2.
absorptionSignSlip(env, val) ==
    IF env.gamma = 0
    THEN IF env.flaser - val = 0 THEN NaN ELSE One
    ELSE One - Gauss(Abs(env.flaser - val), Abs(env.gamma)) \div 2

\* absorption = lambda val: 1-0.5*np.exp(-(flaser+val)**2/(2*gamma**2)).
\* val is always an ndarray, so the division follows numpy: with gamma = 0 the
\* quotient is -inf (exp gives 0.0) or, for 0/0, nan; nothing is raised.
absorption(env, val) ==
    IF env.gamma = 0
    THEN IF env.flaser + val = 0 THEN NaN ELSE One
    ELSE One - Gauss(Abs(env.flaser + val), Abs(env.gamma)) \div 2

\* laser = lambda val: np.cos(flaser*t*np.pi/180)
\*     * np.cos(M1*np.sin(fmod1*t*np.pi/180)) * np.cos(M2*np.sin(fmod2*t*np.pi/180))
\* over t = np.linspace(0, 1000, 1000); val is not used.
laser(env, t) ==
    [k \in 1..Len(t) |->
        SMulDiv(SMulDiv(CosOfProduct(env.flaser, t[k]),
                        CosRad(SMulDiv(env.M1, SinOfProduct(env.fmod1, t[k]), U)),
                        One),
                CosRad(SMulDiv(env.M2, SinOfProduct(env.fmod2, t[k]), U)),
                One)]

\* FMerrorsig with the sidebands added instead of subtracted.
FMerrorsigSum(env, val) ==
    SMulDiv(SMulDiv(env.M1, absorption(env, val), 2 * U),
            FAdd(absorption(env, val - env.fmfmod), absorption(env, val + env.fmfmod)),
            One)

\* FMerrorsig with the shift bound to fmod1 when the lambda is made, so that a
\* later assignment to fmfmod does not reach it.
FMerrorsigEarly(env, val) ==
    SMulDiv(SMulDiv(env.M1, absorption(env, val), 2 * U),
            FSub(absorption(env, val - env.fmod1), absorption(env, val + env.fmod1)),
            One)

\* FMerrorsig = lambda val: (M1/2)*absorption(val)
\*     * (absorption(val-fmfmod)-absorption(val+fmfmod))
FMerrorsig(env, val) ==
    SMulDiv(SMulDiv(env.M1, absorption(env, val), 2 * U),
            FSub(absorption(env, val - env.fmfmod), absorption(env, val + env.fmfmod)),
            One)

\* TTFMS = lambda val: (M1/2)*(M2/2)*(absorption(val-fmod1)*absorption(val-fmod2)
\*     + absorption(val+fmod1)*absorption(val+fmod2) - 2*absorption(val)**2)
\* a**2 and 2*a.
Square(a) == SMulDiv(a, a, One)

Twice(a) == FAdd(a, a)

\* TTFMS with the centre term 2*absorption(val), not squared.
TTFMSNoSquare(env, val) ==
    SMulDiv(SMulDiv(SMulDiv(env.M1, One, 2 * U), SMulDiv(env.M2, One, 2 * U), One),
            FSub(FAdd(SMulDiv(absorption(env, val - env.fmod1),
                              absorption(env, val - env.fmod2), One),
                      SMulDiv(absorption(env, val + env.fmod1),
                              absorption(env, val + env.fmod2), One)),
                 Twice(absorption(env, val))),
            One)

TTFMS(env, val) ==
    SMulDiv(SMulDiv(SMulDiv(env.M1, One, 2 * U), SMulDiv(env.M2, One, 2 * U), One),
            FSub(FAdd(SMulDiv(absorption(env, val - env.fmod1),
                              absorption(env, val - env.fmod2), One),
                      SMulDiv(absorption(env, val + env.fmod1),
                              absorption(env, val + env.fmod2), One)),
                 Twice(Square(absorption(env, val)))),
            One)

\* f(x) for a lambda f and an ndarray x: elementwise.
absorptionOver(env, grid) == [k \in 1..Len(grid) |-> absorption(env, grid[k])]

FMerrorsigOver(env, grid) == [k \in 1..Len(grid) |-> FMerrorsig(env, grid[k])]

TTFMSOver(env, grid) == [k \in 1..Len(grid) |-> TTFMS(env, grid[k])]

\* PlotDataItem.setData(x, y) and setData(y): the data a curve then shows.
\* With y alone the samples are numbered from 0.
SetData(xdata, ydata) == [x |-> xdata, y |-> ydata]

SetDataY(ydata) == [x |-> [k \in 1..Len(ydata) |-> k - 1], y |-> ydata]

AllCurves == {"curve1", "curve2", "curve2b", "curve3", "curve4"}

\* A curve made by plot() before any setData.
NoData == [x |-> <<>>, y |-> <<>>]

\* Lines 240-249, first error curve: the if/elif chain on c1.currentText().
\* In the third branch fmfmod is rebound to fmod1-fmod2 before FMerrorsig is
\* called.  With no branch taken the curve keeps the data it shows (cv).
errorCurve2(env, sch, x, x1, cv) ==
    IF sch = FM THEN SetData(x1, FMerrorsigOver(env, x))
    ELSE IF sch = TT THEN SetData(x1, TTFMSOver(env, x))
    ELSE IF sch = FMTT
         THEN SetData(x1, FMerrorsigOver([env EXCEPT !.fmfmod = env.fmod1 - env.fmod2], x))
         ELSE cv.curve2

\* errorCurve2b without the setData([0]) of the one-curve branches: the curve
\* keeps what it shows.
errorCurve2bKeep(env, sch, x, x1, cv) ==
    IF sch = FMTT
    THEN SetData(x1, TTFMSOver([env EXCEPT !.fmfmod = env.fmod1 - env.fmod2], x))
    ELSE cv.curve2b

\* Lines 240-249, second error curve.
errorCurve2b(env, sch, x, x1, cv) ==
    IF sch = FM THEN SetDataY(<<0>>)
    ELSE IF sch = TT THEN SetDataY(<<0>>)
    ELSE IF sch = FMTT
         THEN SetData(x1, TTFMSOver([env EXCEPT !.fmfmod = env.fmod1 - env.fmod2], x))
         ELSE cv.curve2b

\* Widget.update: one simulation pass.  xs are the six Slider.x, sch is
\* c1.currentText(), cv the data the curves show before the pass.  The result
\* is the data the five curves show after it, the curves setData was called
\* on, and the exception the pass raised: update has no raise statement and
\* numpy's arithmetic warns instead of raising, so there is none.
\* update with the absorption curve computed once and kept from then on.
updateBodyCached(env, sch, cv, x, x1, field) ==
    [curve1 |-> IF cv.curve1 = NoData THEN SetData(x1, absorptionOver(env, x))
                ELSE cv.curve1,
     curve2 |-> errorCurve2(env, sch, x, x1, cv),
     curve2b |-> errorCurve2b(env, sch, x, x1, cv),
     curve3 |-> SetDataY(AbsFft(field)),
     curve4 |-> SetDataY(field),
     plotted |-> AllCurves,
     raised |-> "none"]

updateBody(env, sch, cv, x, x1, field) ==
    [curve1 |-> SetData(x1, absorptionOver(env, x)),
     curve2 |-> errorCurve2(env, sch, x, x1, cv),
     curve2b |-> errorCurve2b(env, sch, x, x1, cv),
     curve3 |-> SetDataY(AbsFft(field)),
     curve4 |-> SetDataY(field),
     plotted |-> IF sch \in {FM, TT, FMTT} THEN AllCurves
                 ELSE {"curve1", "curve3", "curve4"},
     raised |-> "none"]

update(xs, sch, cv) ==
    updateBody(Locals(xs), sch, cv,
               Linspace(-10000 * U, 10000 * U, Num),
               Linspace(0, 10000 * U, Num),
               laser(Locals(xs), Linspace(0, 1000 * Deci, Num)))

\* ---------------------------------------------------------------- Slider

\* The six Sliders of Widget.__init__, w1..w6, with minimum and maximum in
\* units 1/Cent.
Sliders ==
    << [name |-> "Gamma", minimum |-> 1, maximum |-> 1000 * Cent],
       [name |-> "Mod Freq 1", minimum |-> 1, maximum |-> 100 * Cent],
       [name |-> "Mod Freq 2", minimum |-> 1, maximum |-> 100 * Cent],
       [name |-> "Laser Freq", minimum |-> 50 * Cent, maximum |-> 100 * Cent],
       [name |-> "Mod Index 1", minimum |-> 1, maximum |-> 10 * Cent],
       [name |-> "Mod Index 2", minimum |-> 1, maximum |-> 10 * Cent] >>

W == 1..6

\* setLabelValue scaling by maximum instead of maximum - minimum.
setLabelValueNoOffset(w, value) ==
    Sliders[w].minimum * (SliderMaximum - SliderMinimum)
        + value * Sliders[w].maximum

\* Slider.setLabelValue(value), the new Slider.x in units 1/U:
\* minimum + (float(value) / (slider.maximum() - slider.minimum()))
\*     * (maximum - minimum).
\* (The label text it also sets is display only and is not modelled.)
setLabelValue(w, value) ==
    Sliders[w].minimum * (SliderMaximum - SliderMinimum)
        + value * (Sliders[w].maximum - Sliders[w].minimum)

\* Connections with update connected to the value signals before setLabelValue.
ConnectionsUpdateFirst(signal, w) ==
    IF signal = "activated" THEN <<"update">>
    ELSE <<"update", "setLabelValue">>

\* The slots connected to a signal, in the order of the connect calls, which is
\* the order Qt invokes them in: setLabelValue is connected in Slider.__init__,
\* update later in Widget.__init__.
Connections(signal, w) ==
    IF signal = "activated" THEN <<"update">>
    ELSE <<"setLabelValue", "update">>

\* ---------------------------------------------------------------- state

VARIABLES
    sliderValue,   \* w |-> QSlider.value() of Slider w
    boxValue,      \* w |-> QSpinBox.value() of Slider w
    x,             \* w |-> Slider.x of Slider w (units 1/U)
    currentText,   \* c1.currentText()
    curve1,        \* data of the "Absorption Line" curve
    curve2,        \* data of the first "Error Signal" curve
    curve2b,       \* data of the second "Error Signal" curve
    curve3,        \* data of the "Laser in Frequency Domain" curve
    curve4,        \* data of the "Laser in Time Domain" curve
    plotted,       \* curves setData was called on while the last event was handled
    passes,        \* calls of update while the last event was handled
    raised,        \* exception raised by the last pass ("none": none)
    lastEvent,     \* the signal last emitted, and c1.currentText() before it
    nEvents,       \* signals emitted so far
    phase,         \* "gui", or for a run of the engine alone: "ready", "passed", "probed"
    probe          \* engine alone: the three detuning curves at one detuning

vars == <<sliderValue, boxValue, x, currentText, curve1, curve2, curve2b,
          curve3, curve4, plotted, passes, raised, lastEvent, nEvents, phase,
          probe>>

Curves == [curve1 |-> curve1, curve2 |-> curve2, curve2b |-> curve2b,
           curve3 |-> curve3, curve4 |-> curve4]

\* The five curves as Widget.__init__ makes them, before the first pass.
NoCurves == [curve1 |-> NoData, curve2 |-> NoData, curve2b |-> NoData,
             curve3 |-> NoData, curve4 |-> NoData]

NoEvent == [signal |-> "none", w |-> 0, value |-> 0, before |-> ""]

NoProbe == [val |-> 0, sch |-> "", absorption |-> 0, error1 |-> 0, error2 |-> 0]

\* The slots of one emitted signal run in order on the state st =
\* [x, cv, plotted, passes, raised].
RECURSIVE RunSlots(_, _, _, _, _)
AfterUpdate(st, r) ==
    [st EXCEPT !.cv = [curve1 |-> r.curve1, curve2 |-> r.curve2,
                       curve2b |-> r.curve2b, curve3 |-> r.curve3,
                       curve4 |-> r.curve4],
               !.plotted = @ \cup r.plotted,
               !.passes = @ + 1,
               !.raised = r.raised]

RunSlots(slots, w, value, sch, st) ==
    IF slots = <<>> THEN st
    ELSE RunSlots(Tail(slots), w, value, sch,
                  IF Head(slots) = "setLabelValue"
                  THEN [st EXCEPT !.x[w] = setLabelValue(w, value)]
                  ELSE AfterUpdate(st, update(st.x, sch, st.cv)))

\* Emitting a signal: its slots run to completion before the next event.
Handled(st) ==
    /\ x' = st.x
    /\ curve1' = st.cv.curve1
    /\ curve2' = st.cv.curve2
    /\ curve2b' = st.cv.curve2b
    /\ curve3' = st.cv.curve3
    /\ curve4' = st.cv.curve4
    /\ plotted' = st.plotted
    /\ passes' = st.passes
    /\ raised' = st.raised

Emit(signal, w, value, sch) ==
    /\ \E st \in {RunSlots(Connections(signal, w), w, value, sch,
                           [x |-> x, cv |-> Curves, plotted |-> {}, passes |-> 0,
                            raised |-> "none"])} : Handled(st)
    /\ lastEvent' = [signal |-> signal, w |-> w, value |-> value,
                      before |-> currentText]
    /\ nEvents' = nEvents + 1

\* The positions of a slider or spin box the user moves it to.
Ticks == {SliderMinimum, SliderMaximum}

\* The state after Widget.__init__: each Slider has set x from its slider's
\* and then its spin box's initial value (Qt: the minimum), the combo box
\* shows its first item, and line 207 has run one pass.
Shown(r) ==
    /\ curve1 = r.curve1
    /\ curve2 = r.curve2
    /\ curve2b = r.curve2b
    /\ curve3 = r.curve3
    /\ curve4 = r.curve4
    /\ plotted = r.plotted
    /\ raised = r.raised

Init ==
    /\ sliderValue = [w \in W |-> SliderMinimum]
    /\ boxValue = [w \in W |-> SliderMinimum]
    /\ x = [w \in W |-> setLabelValue(w, SliderMinimum)]
    /\ currentText = Schemes[1]
    /\ \E r \in {update(x, currentText, NoCurves)} : Shown(r)
    /\ passes = 1
    /\ lastEvent = NoEvent
    /\ nEvents = 0
    /\ phase = "gui"
    /\ probe = NoProbe

\* The user moves the slider of Slider w to v: slider.valueChanged(v).
SliderValueChanged(w, v) ==
    /\ nEvents < MaxEvents
    /\ v # sliderValue[w]
    /\ sliderValue' = [sliderValue EXCEPT ![w] = v]
    /\ Emit("slider.valueChanged", w, v, currentText)
    /\ UNCHANGED <<boxValue, currentText, phase, probe>>

\* The user sets the spin box of Slider w to v: box.valueChanged(v).
BoxValueChanged(w, v) ==
    /\ nEvents < MaxEvents
    /\ v # boxValue[w]
    /\ boxValue' = [boxValue EXCEPT ![w] = v]
    /\ Emit("box.valueChanged", w, v, currentText)
    /\ UNCHANGED <<sliderValue, currentText, phase, probe>>

\* The user picks the item of index i of the combo box (it may be the one
\* shown): c1.activated(i), after the combo box has made it the current item.
Activated(i) ==
    /\ nEvents < MaxEvents
    /\ currentText' = Schemes[i + 1]
    /\ Emit("activated", 0, i, Schemes[i + 1])
    /\ UNCHANGED <<sliderValue, boxValue, phase, probe>>

Next ==
    \/ \E w \in W, v \in Ticks : SliderValueChanged(w, v)
    \/ \E w \in W, v \in Ticks : BoxValueChanged(w, v)
    \/ \E i \in 0..(Len(Schemes) - 1) : Activated(i)

Spec == Init /\ [][Next]_vars

\* ------------------------------------------------------ the engine alone

\* update and its lambdas as functions of their inputs: the six values update
\* reads from the Sliders are drawn from sets that also hold values no Slider
\* can take (0, a laser frequency of 0), and the detuning curves are also
\* evaluated at single detunings that need not lie on the grid.
GammaIn == {0, 10 * U, 1000 * U}

ModFreqIn == {0, 3 * U, 5 * U, 100 * U}

LaserFreqIn == {0, 50 * U, 70 * U}

ModIndexIn == {0, U, 10 * U}

ValIn == {-70 * U, -50 * U, -20 * U, 0, 20 * U}

EngineInit ==
    /\ sliderValue = [w \in W |-> SliderMinimum]
    /\ boxValue = [w \in W |-> SliderMinimum]
    /\ x \in {<<g, f1, f2, fl, m1, m2>> :
                 g \in GammaIn, f1 \in ModFreqIn, f2 \in ModFreqIn,
                 fl \in LaserFreqIn, m1 \in ModIndexIn, m2 \in ModIndexIn}
    /\ currentText = Schemes[1]
    /\ curve1 = NoData
    /\ curve2 = NoData
    /\ curve2b = NoData
    /\ curve3 = NoData
    /\ curve4 = NoData
    /\ plotted = {}
    /\ passes = 0
    /\ raised = "none"
    /\ lastEvent = NoEvent
    /\ nEvents = 0
    /\ phase = "ready"
    /\ probe = NoProbe

\* One call of update with the combo box showing s.
RunPass(s) ==
    /\ phase = "ready"
    /\ currentText' = s
    /\ \E st \in {RunSlots(<<"update">>, 0, 0, s,
                           [x |-> x, cv |-> Curves, plotted |-> {}, passes |-> 0,
                            raised |-> "none"])} : Handled(st)
    /\ phase' = "passed"
    /\ UNCHANGED <<sliderValue, boxValue, lastEvent, nEvents, probe>>

\* The three detuning curves of a pass under scheme s at the one detuning v.
ProbeAt(env, s, v) ==
    [val |-> v, sch |-> s,
     absorption |-> absorption(env, v),
     error1 |-> errorCurve2(env, s, <<v>>, <<v>>, NoCurves).y[1],
     error2 |-> errorCurve2b(env, s, <<v>>, <<v>>, NoCurves).y[1]]

Evaluate(s, v) ==
    /\ phase = "ready"
    /\ probe' = ProbeAt(Locals(x), s, v)
    /\ phase' = "probed"
    /\ UNCHANGED <<sliderValue, boxValue, x, currentText, curve1, curve2,
                   curve2b, curve3, curve4, plotted, passes, raised, lastEvent,
                   nEvents>>

EngineNext ==
    \/ \E i \in DOMAIN Schemes : RunPass(Schemes[i])
    \/ \E i \in DOMAIN Schemes, v \in ValIn : Evaluate(Schemes[i], v)

EngineSpec == EngineInit /\ [][EngineNext]_vars

\* ------------------------------------------------- the specification's terms

\* The formulas of the specification's components, for the inputs it gives
\* them: params is <<lineWidth, modFreq1, modFreq2, laserFreq, modIndex1,
\* modIndex2>> with lineWidth > 0, w a detuning.

DetuningGrid == Linspace(-10000 * U, 10000 * U, Num)

\* T(w) = 1 - 0.5 * exp(-(laserFreq + w)^2 / (2 * lineWidth^2)).
SpecT(params, w) == One - Gauss(Abs(params[4] + w), params[1]) \div 2

\* errorFM(w) = (modIndex1/2) * T(w) * [T(w - shift) - T(w + shift)].
SpecErrorFM(params, shift, w) ==
    SMulDiv(SMulDiv(params[5], SpecT(params, w), 2 * U),
            SpecT(params, w - shift) - SpecT(params, w + shift), One)

\* errorTTFMS(w) = (modIndex1/2) * (modIndex2/2) * [T(w - modFreq1) * T(w - modFreq2)
\*     + T(w + modFreq1) * T(w + modFreq2) - 2 * T(w)^2].
SpecErrorTTFMS(params, w) ==
    SMulDiv(SMulDiv(SMulDiv(params[5], One, 2 * U), SMulDiv(params[6], One, 2 * U), One),
            SMulDiv(SpecT(params, w - params[2]), SpecT(params, w - params[3]), One)
                + SMulDiv(SpecT(params, w + params[2]), SpecT(params, w + params[3]), One)
                - 2 * SMulDiv(SpecT(params, w), SpecT(params, w), One),
            One)

SpecErrorFMCurve(params, shift) ==
    [k \in 1..Num |-> SpecErrorFM(params, shift, DetuningGrid[k])]

SpecErrorTTFMSCurve(params) ==
    [k \in 1..Num |-> SpecErrorTTFMS(params, DetuningGrid[k])]

\* runSimulation(params, scheme): the five traces as functions of the six
\* parameters and the scheme alone.
SpecRunSimulation(params, scheme) ==
    [absorptionCurve |-> [k \in 1..Num |-> SpecT(params, DetuningGrid[k])],
     errorCurve1 |-> IF scheme = TT THEN SpecErrorTTFMSCurve(params)
                     ELSE IF scheme = FMTT
                          THEN SpecErrorFMCurve(params, params[2] - params[3])
                          ELSE SpecErrorFMCurve(params, params[2]),
     errorCurve2 |-> IF scheme = FMTT THEN SpecErrorTTFMSCurve(params) ELSE <<0>>,
     timeFieldCurve |-> laser(Locals(params), Linspace(0, 1000 * Deci, Num)),
     spectrumCurve |-> AbsFft(laser(Locals(params), Linspace(0, 1000 * Deci, Num)))]

InRange(w) ==
    /\ Sliders[w].minimum * (SliderMaximum - SliderMinimum) <= x[w]
    /\ x[w] <= Sliders[w].maximum * (SliderMaximum - SliderMinimum)

ValueSignals == {"slider.valueChanged", "box.valueChanged"}

\* ------------------------------------------------------------------ claims

\* C1: under "FM and TTFMS" the first error curve is errorFM with the shift
\* modFreq1 - modFreq2 at every grid point, and under "Frequency Modulation" it
\* is errorFM with the shift modFreq1.
C1_CombinedShiftIsDifference ==
    /\ currentText = FMTT => curve2.y = SpecErrorFMCurve(x, x[2] - x[3])
    /\ currentText = FM => curve2.y = SpecErrorFMCurve(x, x[2])

\* A combined pass whose first error curve is not the one the shift modFreq1
\* would give.
C1_Witness ==
    /\ currentText = FMTT
    /\ curve2.y = SpecErrorFMCurve(x, x[2] - x[3])
    /\ curve2.y # SpecErrorFMCurve(x, x[2])

\* C2: the second error curve is the single sample 0 under the one-curve
\* schemes and the errorTTFMS curve over the detuning grid under "FM and
\* TTFMS", whatever was selected before.
C2_SecondCurveFollowsScheme ==
    /\ currentText \in {FM, TT} => curve2b.y = <<0>>
    /\ currentText = FMTT =>
           /\ Len(curve2b.y) = Num
           /\ curve2b.y = SpecErrorTTFMSCurve(x)

\* A one-curve scheme selected while "FM and TTFMS" was shown.
C2_Witness ==
    /\ lastEvent.signal = "activated"
    /\ lastEvent.before = FMTT
    /\ currentText \in {FM, TT}
    /\ curve2b.y = <<0>>

\* C3: every value change of a slider or spin box and every scheme selection
\* runs update exactly once, that pass calls setData on all five curves, Slider.x
\* holds the value the change set, and the curves are those of a pass over the
\* Slider.x and scheme as they are after the change.
C3_EveryChangeRunsOneFullPass ==
    lastEvent.signal # "none" =>
        /\ passes = 1
        /\ plotted = AllCurves
        /\ lastEvent.signal \in ValueSignals =>
               x[lastEvent.w] = setLabelValue(lastEvent.w, lastEvent.value)
        /\ lastEvent.signal = "activated" => currentText = Schemes[lastEvent.value + 1]
        /\ \A r \in {update(x, currentText, NoCurves)} :
               /\ curve1 = r.curve1
               /\ curve2 = r.curve2
               /\ curve2b = r.curve2b
               /\ curve3 = r.curve3
               /\ curve4 = r.curve4

\* A spin box moved to its maximum, which changed Slider.x.
C3_Witness ==
    /\ lastEvent.signal = "box.valueChanged"
    /\ lastEvent.value = SliderMaximum
    /\ x[lastEvent.w] # setLabelValue(lastEvent.w, sliderValue[lastEvent.w])
    /\ passes = 1

\* C4: the curves shown are a function of the current six parameters and the
\* current scheme alone, namely runSimulation of them; in particular under
\* "Frequency Modulation" the shift is modFreq1 also right after a combined pass.
C4_TracesDependOnCurrentInputsOnly ==
    \A r \in {SpecRunSimulation(x, currentText)} :
        /\ curve1.y = r.absorptionCurve
        /\ curve2.y = r.errorCurve1
        /\ curve2b.y = r.errorCurve2
        /\ curve3.y = r.spectrumCurve
        /\ curve4.y = r.timeFieldCurve

\* "Frequency Modulation" selected while "FM and TTFMS" was shown, after the
\* parameters were changed.
C4_Witness ==
    /\ lastEvent.signal = "activated"
    /\ lastEvent.before = FMTT
    /\ currentText = FM
    /\ x # [w \in W |-> setLabelValue(w, SliderMinimum)]

C6_TTFMSZeroAtOrigin ==
    (phase = "probed" /\ probe.sch = TT /\ probe.val = 0 /\ x[1] > 0) =>
        probe.error1 = 0

\* C6 as amended: errorTTFMS(0) = 0 when lineWidth > 0 and both modulation
\* frequencies are 0.
C6_TTFMSZeroAtOriginUnshifted ==
    (phase = "probed" /\ probe.sch = TT /\ probe.val = 0 /\ x[1] > 0
        /\ x[2] = 0 /\ x[3] = 0) =>
        probe.error1 = 0

\* errorTTFMS(0) evaluated with both modulation frequencies 0, both modulation
\* indices positive and the line at the origin (T(0) = 0.5).
C6_Witness ==
    /\ phase = "probed" /\ probe.sch = TT /\ probe.val = 0
    /\ x[1] > 0 /\ x[2] = 0 /\ x[3] = 0 /\ x[5] > 0 /\ x[6] > 0
    /\ probe.absorption = One \div 2
    /\ probe.error1 = 0

\* C7: with laserFreq = 0 and lineWidth > 0, errorFM(w) = -errorFM(-w).
C7_ErrorFMAntisymmetric ==
    (phase = "probed" /\ probe.sch = FM /\ x[4] = 0 /\ x[1] > 0) =>
        probe.error1 = -ProbeAt(Locals(x), FM, -probe.val).error1

\* errorFM evaluated with laserFreq = 0 where it is not 0.
C7_Witness ==
    /\ phase = "probed" /\ probe.sch = FM /\ x[4] = 0 /\ x[1] > 0
    /\ probe.val # 0
    /\ probe.error1 # 0

\* C8: under "Frequency Modulation", at the detuning -laserFreq the absorption
\* curve is 0.5 and the first error curve is 0 (lineWidth > 0).
C8_LineCentre ==
    (phase = "probed" /\ probe.sch = FM /\ probe.val = -x[4] /\ x[1] > 0) =>
        /\ probe.absorption = One \div 2
        /\ probe.error1 = 0

\* The scenario lineWidth=10, modFreq1=5, modFreq2=3, laserFreq=70,
\* modIndex1=modIndex2=1 at the detuning -70.
C8_Witness ==
    /\ phase = "probed" /\ probe.sch = FM
    /\ x = <<10 * U, 5 * U, 3 * U, 70 * U, U, U>>
    /\ probe.val = -70 * U
    /\ probe.absorption = One \div 2

\* C9: with lineWidth > 0, 0.5 <= T(w) <= 1 at every detuning.
C9_TransmissionBounds ==
    x[1] > 0 =>
        /\ phase = "probed" =>
               One \div 2 <= probe.absorption /\ probe.absorption <= One
        /\ phase = "passed" =>
               \A k \in 1..Num : One \div 2 <= curve1.y[k] /\ curve1.y[k] <= One

\* A transmission strictly inside the dip.
C9_Witness ==
    /\ phase = "probed" /\ x[1] > 0
    /\ One \div 2 < probe.absorption
    /\ probe.absorption < One

\* C10: every Slider.x lies within its Slider's minimum and maximum, and the
\* line width the pass divides by is strictly positive.
C10_ParametersWithinRange ==
    /\ \A w \in W : InRange(w)
    /\ x[1] > 0

\* Gamma set to its maximum, 1000, from its spin box.
C10_Witness ==
    /\ lastEvent.signal = "box.valueChanged"
    /\ lastEvent.w = 1
    /\ x[1] = Sliders[1].maximum * (SliderMaximum - SliderMinimum)

====
